---- MODULE Spec2Model ----
(***************************************************************************)
(* Model of dipa-auto (src/dipa_auto.py): the DipaChecker poller.  One     *)
(* process run of DipaChecker.run: check_branch("stable"),                 *)
(* check_branch("testflight"), sleep, forever.  The listing service, the   *)
(* GitHub dispatch endpoint and the file system are the environment: each  *)
(* check_branch draws the answer of the listing fetch, the answer of every *)
(* dispatch POST and the outcome of the state-file write from small sets.  *)
(*                                                                         *)
(* Spec is one run of the process from its first start.  LoadedSpec is a   *)
(* run that starts from a state file left by an earlier run.  CrashSpec    *)
(* adds kills of the process and its restart from the state file.          *)
(* PureSpec calls get_latest_version and fetch_ipa_list on their own.      *)
(***************************************************************************)
EXTENDS Integers, Sequences, FiniteSets, TLC

VARIABLES
    targets,        \* self.targets: the configured targets, in config order
    mock_hash,      \* self.mock_hash: the --mock-hash override, or None
    refresh_schedule, \* self.refresh_schedule: the cron expression, by fields
    branch_hashes,  \* self.branch_hashes: the in-memory state, per branch
    hash_file,      \* /var/lib/dipa-auto/branch_hashes.json on disk
    pc,             \* position of DipaChecker.run in its loop body
    faults,         \* failures the environment has answered with so far
    last,           \* what the check_branch call that just returned did
    prev,           \* per branch: its most recent check_branch that fetched
    acked,          \* <<branch, hash, repo>> whose POST was answered 204
    kills,          \* times the process was killed so far
    killed,         \* the check_branch call in which the process was killed
    call,           \* a call of a function on its own: its name and arguments
    returned        \* what that call returned, once it has

vars ==
    <<targets, mock_hash, refresh_schedule, branch_hashes, hash_file, pc,
      faults, last, prev, acked, kills, killed, call, returned>>

\* what load_config and the command line fix for the life of the process
config == <<targets, mock_hash, refresh_schedule>>

\* the kills of the process
crash == <<kills, killed>>

\* the call of a function on its own
pure == <<call, returned>>

----------------------------------------------------------------------------
(* Bounds of the model *)

\* check_branch calls of one run in which the environment fails: the fetch
\* raises, does not parse or is not answered 200, a dispatch call is not
\* answered 204, or the write of the state file raises
MaxFaults == 1

\* items of a listing that get_latest_version or fetch_ipa_list is called
\* with on its own
MaxLen == 2

\* times the process is killed and started again
MaxKills == 1

----------------------------------------------------------------------------
(* Values *)

Branches == {"stable", "testflight"}

\* Python None, where a hash is expected
None == [kind |-> "None", of |-> <<>>]

\* the value of --mock-hash when it is given: a string that is no sha256 digest
MockHashValue == [kind |-> "mock", of |-> <<>>]

base_url == "https://ipa.example"

\* mod_time strings are sequences of characters; characters are their
\* code points, so that Python's str comparison is the lexicographic order
\* ('0' is 48, '1' is 49, '2' is 50, 'Z' is 90, '.' is 46).
\* "...:01Z" and "...:02Z", the common prefix dropped
Time1 == <<48, 49, 90>>
Time2 == <<48, 50, 90>>
\* "...:01.5Z": the time between the two, with a sub-second digit
Time1Half == <<48, 49, 46, 53, 90>>

\* a JSON object of the listing: its keys in the order of the response body
ItemA == [keys |-> <<"name", "mod_time">>, name |-> "App_1.0", mod_time |-> Time1]
ItemB == [keys |-> <<"name", "mod_time">>, name |-> "App_2.0", mod_time |-> Time2]

\* the response bodies that parse as a JSON array of items
Listings == { <<>>, <<ItemA>>, <<ItemA, ItemB>> }

\* the bodies of a 500 answer of the listing service that parse as a
\* JSON array of items
ErrorBodies == { <<ItemA>> }

TargetA == [github_repo |-> "org/a", github_token |-> "ghp_a"]
TargetB == [github_repo |-> "org/b", github_token |-> "ghp_b"]
\* a second target with the repository of TargetA: the schema (lines 24-27)
\* asks for at least one target and does not ask for distinct repositories
TargetA2 == [github_repo |-> "org/a", github_token |-> "ghp_a2"]

TargetConfigs == { <<TargetA, TargetB>>, <<TargetA, TargetA2>> }

\* refresh_schedule values that the schema's regex (line 23) lets through:
\* "* 5 * * *" by its second alternative, "5 5" by its first
Schedules == { <<"*", "5", "*", "*", "*">>, <<"5", "5">> }

\* croniter(expr, now) raises CroniterBadCronError unless the expression
\* has 5, 6 or 7 fields
croniter_raises(expr) == Len(expr) \notin {5, 6, 7}

\* no call of a function on its own is being made, and none has returned
NoCall == [fn |-> "none", args |-> <<>>]
NotReturned == [fn |-> "none", value |-> <<>>]

Range(s) == { s[i] : i \in DOMAIN s }

----------------------------------------------------------------------------
(* fetch_ipa_list: the fingerprint of a listing *)

\* the keys of the item objects, in the order sort_keys=True puts them
KeyOrder == <<"mod_time", "name">>

\* sorted(keys), for the keys of an item object
SortedKeys(keys) == SelectSeq(KeyOrder, LAMBDA k : k \in Range(keys))

\* json.dumps(data) without sort_keys: the keys in the order of the body
json_dumps_Unsorted(data) == data

\* json.dumps(data, sort_keys=True): every object's keys sorted, the array
\* order kept
json_dumps(data) ==
    [i \in 1..Len(data) |-> [data[i] EXCEPT !.keys = SortedKeys(@)]]

\* hashlib.sha256(...).hexdigest(): collision-free on the modelled inputs
sha256(bytes) == [kind |-> "sha256", of |-> bytes]

\* the answers requests.get can give: it raises, or returns a response with
\* a status code and a body that response.json() parses or raises on
Unparsable == [raised |-> FALSE, status_code |-> 200, parses |-> FALSE, data |-> <<>>]
FetchResponses ==
    { [raised |-> TRUE, status_code |-> 0, parses |-> FALSE, data |-> <<>>],
      Unparsable }
    \cup { [raised |-> FALSE, status_code |-> 200, parses |-> TRUE, data |-> l] :
             l \in Listings }
    \cup { [raised |-> FALSE, status_code |-> 500, parses |-> TRUE, data |-> l] :
             l \in ErrorBodies }

\* the listing service did not deliver a body that parses
FetchFailed(response) == response.raised \/ ~response.parses

\* fetch_ipa_list raises: requests.get raised, or response.json() did
FetchRaises(response) == response.raised \/ ~response.parses

\* the hash fetch_ipa_list returns with the data when it does not raise
fetch_ipa_list(branch, response, mock) ==
    IF mock # None /\ branch = "stable"
    THEN mock
    ELSE sha256(json_dumps(response.data))

----------------------------------------------------------------------------
(* get_latest_version *)

\* Python's a < b on str: lexicographic on code points
RECURSIVE StrLess(_, _)
StrLess(a, b) ==
    IF b = <<>> THEN FALSE
    ELSE IF a = <<>> THEN TRUE
    ELSE IF Head(a) # Head(b) THEN Head(a) < Head(b)
    ELSE StrLess(Tail(a), Tail(b))

\* the None that get_latest_version returns for an empty listing
NoItem == [keys |-> <<>>, name |-> "", mod_time |-> <<>>]

\* max(ipa_list, key=...) from position i on: a later item replaces the
\* best so far only when its key is strictly greater
RECURSIVE MaxFrom(_, _, _)
MaxFrom(ipa_list, i, best) ==
    IF i > Len(ipa_list) THEN best
    ELSE MaxFrom(ipa_list, i + 1,
                 IF StrLess(best.mod_time, ipa_list[i].mod_time)
                 THEN ipa_list[i] ELSE best)

get_latest_version(ipa_list) ==
    IF ipa_list = <<>> THEN NoItem
    ELSE MaxFrom(ipa_list, 2, ipa_list[1])

----------------------------------------------------------------------------
(* The state: self.branch_hashes and the state file *)

\* {} as the value of "dispatches": no hash has an entry
EmptyDict == [h \in {} |-> {}]

\* dict.get(key, default)
DictGet(d, key, default) == IF key \in DOMAIN d THEN d[key] ELSE default

\* an entry of self.branch_hashes is a dict, with the keys it has, or, in a
\* state file of the older format, the hash alone as a str h: [str |-> h]
IsDict(entry) == "str" \notin DOMAIN entry

\* {"hash": None, "dispatches": {}}
EmptyEntry == [hash |-> None, dispatches |-> EmptyDict]

\* load_hashes when the state file does not exist
InitialHashes == [b \in Branches |-> EmptyEntry]

\* the state file: absent, a complete JSON document, or a document that
\* open(..., "w") truncated and json.dump did not finish
NoFile == [kind |-> "absent", data |-> InitialHashes]
JsonFile(hashes) == [kind |-> "json", data |-> hashes]
PartialFile == [kind |-> "partial", data |-> InitialHashes]

\* what the file system does to save_hashes: the write completes, open()
\* raises and the file is as before, or json.dump raises after open()
\* truncated the file
SaveOutcomes == {"ok", "open_raises", "dump_raises"}

\* where a kill of the process can fall once check_branch has come to
\* line 228: before open() has truncated the file, or after it and before
\* json.dump has written the whole document
KillPoints == {"killed_before_open", "killed_in_dump"}

\* save_hashes: the file after the call
save_hashes(hashes, file, outcome) ==
    CASE outcome = "ok" -> JsonFile(hashes)
      [] outcome = "open_raises" -> file
      [] outcome = "dump_raises" -> PartialFile
      [] outcome = "killed_before_open" -> file
      [] outcome = "killed_in_dump" -> PartialFile

\* hashes of listings that an earlier run of the program stored
OldStable == [kind |-> "stored", of |-> <<"old_hash_stable">>]
OldTestflight == [kind |-> "stored", of |-> <<"old_hash_testflight">>]

\* state files that earlier runs of the program, in its current and its
\* older formats, left: every entry the hash alone as a str; every
\* entry a dict with the hash and no dispatches; no entry for testflight;
\* and the current format with a dispatch recorded
StateFiles ==
    { JsonFile([b \in Branches |->
                 [str |-> IF b = "stable" THEN OldStable ELSE OldTestflight]]),
      JsonFile([b \in Branches |->
                 [hash |-> IF b = "stable" THEN OldStable ELSE OldTestflight]]),
      JsonFile([b \in {"stable"} |->
                 [hash |-> OldStable,
                  dispatches |-> [h \in {OldStable} |-> {"org/a"}]]]),
      JsonFile([b \in Branches |->
                 [hash |-> IF b = "stable" THEN OldStable ELSE OldTestflight,
                  dispatches |->
                    [h \in {IF b = "stable" THEN OldStable ELSE OldTestflight}
                       |-> {"org/a"}]]]) }

\* load_hashes: json.load gives back the document that json.dump wrote
\* (None as null, the lists of repos as arrays), and raises on a document
\* that is not complete
load_hashes(file, mock) ==
    CASE file.kind = "absent" ->
           [raised |-> FALSE, hashes |-> InitialHashes]
      [] file.kind = "partial" ->
           [raised |-> TRUE, hashes |-> InitialHashes]
      [] file.kind = "json" ->
           [raised |-> FALSE,
            hashes |->
              IF mock # None
              THEN \* line 100
                   [b \in DOMAIN file.data \cup {"stable"} |->
                      IF b = "stable"
                      THEN [hash |-> mock, dispatches |-> EmptyDict]
                      ELSE file.data[b]]
              ELSE file.data]

----------------------------------------------------------------------------
(* dispatch_github_workflow *)

\* the answers requests.post can give: it raises, or a status code
PostResponses ==
    { [raised |-> TRUE, status_code |-> 0],
      [raised |-> FALSE, status_code |-> 204],
      [raised |-> FALSE, status_code |-> 500] }

\* the dispatch endpoint answered the call with HTTP 204
Answered204(response) == ~response.raised /\ response.status_code = 204

\* line 136 never skipping
AlreadyDispatched_NeverSkips(dispatches, current_hash, repo) == FALSE

\* line 136: the target's repo is recorded for this hash
AlreadyDispatched(dispatches, current_hash, repo) ==
    repo \in DictGet(dispatches, current_hash, {})

\* line 158 without its status check: every answer counts as successful
PostSucceeded_AnyStatus(response) == ~response.raised

\* lines 171-173 falling through to line 169: a raised call counts too
PostSucceeded_IgnoresRaise(response) ==
    response.raised \/ response.status_code = 204

\* lines 142-173: the call counts as successful
PostSucceeded(response) == ~response.raised /\ response.status_code = 204

\* the request that line 143 sends to target, with the answer it got
PostCall(target, ipa_url, branch, response) ==
    [url |-> <<"https://api.github.com/repos", target.github_repo, "dispatches">>,
     repo |-> target.github_repo,
     token |-> target.github_token,
     ipa_url |-> ipa_url,
     is_testflight |-> (branch = "testflight"),
     response |-> response]

\* the for loop of lines 132-173 from target i on; acc holds
\* successful_dispatches, failed_dispatches and the calls made so far
RECURSIVE DispatchLoop(_, _, _, _, _, _, _)
DispatchLoop(tgts, i, dispatches, ipa_url, branch, current_hash, acc) ==
    IF i > Len(tgts) THEN acc.result
    ELSE
      LET repo == tgts[i].github_repo
          response == acc.posts[i]
          r == acc.result
          next ==
            IF AlreadyDispatched(dispatches, current_hash, repo)
            THEN [r EXCEPT !.successful = Append(@, repo)]
            ELSE IF PostSucceeded(response)
            THEN [r EXCEPT !.successful = Append(@, repo),
                           !.calls = Append(@, PostCall(tgts[i], ipa_url, branch, response))]
            ELSE [r EXCEPT !.failed = Append(@, repo),
                           !.calls = Append(@, PostCall(tgts[i], ipa_url, branch, response))]
      IN DispatchLoop(tgts, i + 1, dispatches, ipa_url, branch, current_hash,
                      [acc EXCEPT !.result = next])

\* dispatch_github_workflow(ipa_url, branch, current_hash) on the state
\* hashes and the targets tgts, posts[i] being the answer to a call to
\* target i; the result carries the calls made, in order
dispatch_github_workflow(hashes, tgts, ipa_url, branch, current_hash, posts) ==
    LET \* lines 129-130
        branch_data == DictGet(hashes, branch, EmptyEntry)
        dispatches == DictGet(branch_data, "dispatches", EmptyDict)
        r == DispatchLoop(tgts, 1, dispatches, ipa_url, branch, current_hash,
                 [posts |-> posts,
                  result |-> [successful |-> <<>>, failed |-> <<>>, calls |-> <<>>]])
    IN [success |-> (r.failed = <<>>),
        successful |-> r.successful,
        failed |-> r.failed,
        hash |-> current_hash,
        calls |-> r.calls]

----------------------------------------------------------------------------
(* check_branch *)

\* line 195 without the comparison: every listing counts as changed
HashChanged_Always(current_hash, stored_hash) == TRUE

\* line 195: the fetched listing counts as changed
HashChanged(current_hash, stored_hash) == current_hash # stored_hash

\* line 197 without its test: None is dispatched like an item
Truthy_Always(latest_version) == TRUE

\* line 197: get_latest_version returned an item (a non-empty dict)
Truthy(latest_version) == latest_version.keys # <<>>

\* line 198 with the branch fixed: every URL is built under stable
FinalUrl_StableOnly(branch, latest_version) ==
    <<base_url, "stable", latest_version.name>>

\* line 198: f"{self.base_url}/{branch}/{latest_version['name']}"
FinalUrl(branch, latest_version) == <<base_url, branch, latest_version.name>>

\* line 204 without its test: the state advances after every fan-out
HasSuccessful_Always(dispatch_result) == TRUE

\* line 204: the state advances when the list of successful repos is not empty
HasSuccessful(dispatch_result) == dispatch_result.successful # <<>>

\* lines 206-223 without line 210: the hash is not advanced
UpdatedBranchData_KeepsHash(branch_data, current_hash, successful) ==
    LET d == branch_data.dispatches
    IN [hash |-> branch_data.hash,
        dispatches |->
          [h \in DOMAIN d \cup {current_hash} |->
             IF h = current_hash
             THEN DictGet(d, h, {}) \cup Range(successful)
             ELSE d[h]]]

\* lines 206-223 keeping the entry of current_hash only: the entries of
\* the other hashes are dropped
UpdatedBranchData_Prunes(branch_data, current_hash, successful) ==
    [hash |-> current_hash,
     dispatches |->
       [h \in {current_hash} |->
          DictGet(branch_data.dispatches, h, {}) \cup Range(successful)]]

\* lines 206-223: the branch's entry with the hash advanced and the
\* successful repos merged into the entry of current_hash
UpdatedBranchData(branch_data, current_hash, successful) ==
    LET \* lines 213-214
        d == DictGet(branch_data, "dispatches", EmptyDict)
    IN [hash |-> current_hash,
        dispatches |->
          [h \in DOMAIN d \cup {current_hash} |->
             IF h = current_hash
             THEN DictGet(d, h, {}) \cup Range(successful)
             ELSE d[h]]]

\* what a later check_branch of the branch is compared with: the listing
\* fetched and the repos of the two result lists
NoPrev == [fetched |-> FALSE, data |-> <<>>, successful |-> {}, failed |-> {}]
\* the record of a check_branch call, before any call: before is the
\* branch's previous fetch when the call fetched the same listing again
NoResult == [successful |-> <<>>, failed |-> <<>>, calls |-> <<>>]
NotRun ==
    [branch |-> "none", response |-> Unparsable, current_hash |-> None,
     dispatched |-> FALSE, result |-> NoResult, save |-> "none", ret |-> FALSE,
     before |-> NoPrev]

\* check_branch(branch) on the state (hashes, file): the state it leaves,
\* and the record of what it did.  response answers the listing fetch,
\* posts[i] a dispatch call to target i, save the write of the state file.
CheckBranchOutcome(branch, hashes, file, tgts, mock, response, posts, save) ==
    LET ran == [NotRun EXCEPT !.branch = branch, !.response = response]
    IN
    IF FetchRaises(response)
    THEN \* lines 238-240
         [hashes |-> hashes, file |-> file, rec |-> ran]
    ELSE
      LET ipa_list == response.data
          current_hash == fetch_ipa_list(branch, response, mock)
          \* lines 189-190
          ensured ==
            [b \in DOMAIN hashes \cup {branch} |->
               IF b \in DOMAIN hashes THEN hashes[b] ELSE EmptyEntry]
          branch_data == ensured[branch]
          unchanged(rec) == [hashes |-> ensured, file |-> file, rec |-> rec]
      IN
      IF ~IsDict(branch_data)
      THEN \* line 193: str has no get; AttributeError, lines 238-240
           unchanged([ran EXCEPT !.current_hash = current_hash])
      ELSE
        LET stored_hash == DictGet(branch_data, "hash", None)
            fetched == [ran EXCEPT !.current_hash = current_hash, !.ret = TRUE]
        IN
        IF ~HashChanged(current_hash, stored_hash)
        THEN \* line 236
             unchanged(fetched)
        ELSE
          LET latest_version == get_latest_version(ipa_list)
          IN
          IF ~Truthy(latest_version)
          THEN unchanged(fetched)
          ELSE
            LET final_url == FinalUrl(branch, latest_version)
                dispatch_result ==
                  dispatch_github_workflow(ensured, tgts, final_url, branch,
                                           current_hash, posts)
                result == [successful |-> dispatch_result.successful,
                           failed |-> dispatch_result.failed,
                           calls |-> dispatch_result.calls]
                dispatched == [fetched EXCEPT !.dispatched = TRUE, !.result = result]
            IN
            IF ~HasSuccessful(dispatch_result)
            THEN unchanged(dispatched)
            ELSE
              LET updated ==
                    [ensured EXCEPT ![branch] =
                       UpdatedBranchData(branch_data, current_hash,
                                         dispatch_result.successful)]
              IN [hashes |-> updated,
                  file |-> save_hashes(updated, file, save),
                  \* save_hashes raising is caught at line 238
                  rec |-> [dispatched EXCEPT !.save = save, !.ret = (save = "ok")]]

\* the calls of a check_branch record that were answered 204
AckedBy(rec) ==
    { <<rec.branch, rec.current_hash, c.repo>> :
        c \in { x \in Range(rec.result.calls) : Answered204(x.response) } }

PrevOf(rec) ==
    [fetched |-> TRUE, data |-> rec.response.data,
     successful |-> Range(rec.result.successful),
     failed |-> Range(rec.result.failed)]

\* the previous fetch of the branch, for a call that fetches the same
\* listing again
Refetched(previous, response) ==
    IF /\ previous.fetched
       /\ ~FetchFailed(response)
       /\ response.data = previous.data
    THEN previous ELSE NoPrev

\* the failures among the answers a check_branch call reads
FetchFault(response) ==
    IF FetchFailed(response) \/ response.status_code # 200 THEN 1 ELSE 0
PostFaults(rec) ==
    Cardinality({ i \in DOMAIN rec.result.calls :
                    ~Answered204(rec.result.calls[i].response) })
SaveFault(rec) == IF rec.save \in SaveOutcomes \ {"ok"} THEN 1 ELSE 0
FaultsOf(rec) ==
    IF FetchFault(rec.response) + PostFaults(rec) + SaveFault(rec) > 0
    THEN 1 ELSE 0

\* the answers left to the environment once MaxFaults calls have failed
Answers(all, clean) == IF faults < MaxFaults THEN all ELSE clean

\* the answers of the environment that check_branch(branch) reads in the
\* current state: one answer per target it calls once the fetch is
\* answered by response, and the outcome of the write when it writes the
\* state file.  An answer it never asks for has its first value.
DefaultPost == [raised |-> FALSE, status_code |-> 204]
Outcome(branch, response, posts, save) ==
    CheckBranchOutcome(branch, branch_hashes, hash_file, targets, mock_hash,
                       response, posts, save)
PostsFor(branch, response) ==
    UNION {
      LET asked == { i \in 1..Len(targets) :
                       \E c \in Range(probe.rec.result.calls) :
                          c.token = targets[i].github_token }
      IN { [i \in 1..Len(targets) |-> IF i \in asked THEN f[i] ELSE DefaultPost] :
             f \in [asked -> Answers(PostResponses, {DefaultPost})] } :
      probe \in { Outcome(branch, response,
                          [i \in 1..Len(targets) |-> DefaultPost], "ok") } }
SavesFor(rec) ==
    IF rec.save = "none" THEN {"ok"} ELSE Answers(SaveOutcomes, {"ok"})

check_branch(branch) ==
    \E response \in Answers(FetchResponses,
                             { r \in FetchResponses : FetchFault(r) = 0 }) :
      \E posts \in PostsFor(branch, response) :
        \E written \in { Outcome(branch, response, posts, "ok") } :
          \E save \in SavesFor(written.rec) :
            \E o \in { IF save = "ok" THEN written
                       ELSE Outcome(branch, response, posts, save) } :
              /\ faults + FaultsOf(o.rec) <= MaxFaults
              /\ faults' = faults + FaultsOf(o.rec)
              /\ branch_hashes' = o.hashes
              /\ hash_file' = o.file
              /\ last' = [o.rec EXCEPT !.before = Refetched(prev[branch], response)]
              /\ prev' = IF FetchFailed(response) THEN prev
                         ELSE [prev EXCEPT ![branch] = PrevOf(o.rec)]
              /\ acked' = acked \cup AckedBy(o.rec)

\* check_branch(branch) during which the process is killed at line 228,
\* after the fan-out
killed_in_check_branch(branch) ==
    \E response \in Answers(FetchResponses,
                             { r \in FetchResponses : FetchFault(r) = 0 }) :
      \E posts \in PostsFor(branch, response) :
        \E point \in KillPoints :
          \E o \in { Outcome(branch, response, posts, point) } :
            /\ o.rec.save = point
            /\ faults + FaultsOf(o.rec) <= MaxFaults
            /\ faults' = faults + FaultsOf(o.rec)
            /\ branch_hashes' = o.hashes
            /\ hash_file' = o.file
            /\ last' = o.rec
            /\ killed' = o.rec
            /\ acked' = acked \cup AckedBy(o.rec)
            /\ UNCHANGED prev

----------------------------------------------------------------------------
(* run *)

\* __init__: the config is loaded, the state file does not exist
Init ==
    /\ targets \in TargetConfigs
    /\ mock_hash \in {None, MockHashValue}
    /\ refresh_schedule \in Schedules
    /\ branch_hashes = InitialHashes
    /\ hash_file = NoFile
    /\ pc = "stable"
    /\ faults = 0
    /\ last = NotRun
    /\ prev = [b \in Branches |-> NoPrev]
    /\ acked = {}
    /\ kills = 0
    /\ killed = NotRun
    /\ call = NoCall
    /\ returned = NotReturned

\* line 249 with the iteration abandoned when the call returns False
RunStable_StopsOnFailure ==
    /\ pc = "stable"
    /\ check_branch("stable")
    /\ pc' = IF last'.ret THEN "testflight" ELSE "sleep"
    /\ UNCHANGED <<config, crash, pure>>

\* line 249
RunStable ==
    /\ pc = "stable"
    /\ check_branch("stable")
    /\ pc' = "testflight"
    /\ UNCHANGED <<config, crash, pure>>

\* line 250
RunTestflight ==
    /\ pc = "testflight"
    /\ check_branch("testflight")
    /\ pc' = "sleep"
    /\ UNCHANGED <<config, crash, pure>>

\* lines 252-259: compute the next scheduled run, sleep until then and
\* loop; croniter raising at line 254 leaves run, and the process, with the
\* exception.  The record of the last call is dropped.
Sleep ==
    /\ pc = "sleep"
    /\ pc' = IF croniter_raises(refresh_schedule) THEN "raised" ELSE "stable"
    /\ last' = NotRun
    /\ UNCHANGED <<config, branch_hashes, hash_file, faults, prev, acked,
                   crash, pure>>

Next == RunStable \/ RunTestflight \/ Sleep

Spec == Init /\ [][Next]_vars

----------------------------------------------------------------------------
(* run, killed and started again *)

\* the process is killed in check_branch("stable"), line 249
KillInStable ==
    /\ pc = "stable"
    /\ kills < MaxKills
    /\ killed_in_check_branch("stable")
    /\ pc' = "killed"
    /\ kills' = kills + 1
    /\ UNCHANGED <<config, pure>>

\* the process is killed in check_branch("testflight"), line 250
KillInTestflight ==
    /\ pc = "testflight"
    /\ kills < MaxKills
    /\ killed_in_check_branch("testflight")
    /\ pc' = "killed"
    /\ kills' = kills + 1
    /\ UNCHANGED <<config, pure>>

\* the process is killed in time.sleep, line 259
KillAsleep ==
    /\ pc = "sleep"
    /\ kills < MaxKills
    /\ pc' = "killed"
    /\ kills' = kills + 1
    /\ last' = NotRun
    /\ UNCHANGED <<config, branch_hashes, hash_file, faults, prev, acked,
                   killed, pure>>

\* the process is started again: __init__ loads the config and the state
\* file, lines 67-74; load_hashes raising leaves __init__, and the
\* process, with the exception
Restart ==
    /\ pc = "killed"
    /\ LET loaded == load_hashes(hash_file, mock_hash)
       IN /\ pc' = IF loaded.raised THEN "raised" ELSE "stable"
          /\ branch_hashes' = loaded.hashes
    /\ last' = NotRun
    /\ prev' = [b \in Branches |-> NoPrev]
    /\ UNCHANGED <<config, hash_file, faults, acked, crash, pure>>

CrashNext ==
    \/ RunStable \/ RunTestflight \/ Sleep
    \/ KillInStable \/ KillInTestflight \/ KillAsleep \/ Restart

\* __init__ of the first start: two targets with distinct repositories, a
\* schedule that croniter accepts, no state file
CrashInit ==
    /\ targets = <<TargetA, TargetB>>
    /\ mock_hash \in {None, MockHashValue}
    /\ refresh_schedule = <<"*", "5", "*", "*", "*">>
    /\ branch_hashes = InitialHashes
    /\ hash_file = NoFile
    /\ pc = "stable"
    /\ faults = 0
    /\ last = NotRun
    /\ prev = [b \in Branches |-> NoPrev]
    /\ acked = {}
    /\ kills = 0
    /\ killed = NotRun
    /\ call = NoCall
    /\ returned = NotReturned

CrashSpec == CrashInit /\ [][CrashNext]_vars

----------------------------------------------------------------------------
(* run, started with a state file that an earlier run left *)

\* __init__: the config is loaded, the state file exists and is loaded
LoadedInit ==
    /\ targets = <<TargetA, TargetB>>
    /\ mock_hash \in {None, MockHashValue}
    /\ refresh_schedule = <<"*", "5", "*", "*", "*">>
    /\ hash_file \in StateFiles
    /\ branch_hashes = load_hashes(hash_file, mock_hash).hashes
    /\ pc = "stable"
    /\ faults = 0
    /\ last = NotRun
    /\ prev = [b \in Branches |-> NoPrev]
    /\ acked = {}
    /\ kills = 0
    /\ killed = NotRun
    /\ call = NoCall
    /\ returned = NotReturned

LoadedSpec == LoadedInit /\ [][Next]_vars

----------------------------------------------------------------------------
(* get_latest_version and fetch_ipa_list, each called on its own *)

\* the sequences over S of length at most n
RECURSIVE SeqsUpTo(_, _)
SeqsUpTo(S, n) ==
    IF n = 0 THEN { <<>> }
    ELSE LET shorter == SeqsUpTo(S, n - 1)
         IN shorter \cup { Append(q, x) : q \in shorter, x \in S }

\* the items of the listings get_latest_version is called with: two names,
\* and timestamps with and without sub-second digits
SelectorItems ==
    { [keys |-> <<"name", "mod_time">>, name |-> n, mod_time |-> t] :
        n \in {"App_1.0", "App_2.0"}, t \in {Time1, Time1Half, Time2} }

\* the items of the listings fetch_ipa_list is called with: the keys of
\* the object in either order in the response body
FingerprintItems ==
    { [keys |-> k, name |-> f[1], mod_time |-> f[2]] :
        k \in { <<"name", "mod_time">>, <<"mod_time", "name">> },
        f \in { <<"App_1.0", Time1>>, <<"App_2.0", Time1>>, <<"App_1.0", Time2>> } }

\* a 200 answer of the listing service with the body data
OkResponse(data) ==
    [raised |-> FALSE, status_code |-> 200, parses |-> TRUE, data |-> data]

\* the calls: get_latest_version(ipa_list), and fetch_ipa_list(branch)
\* made twice, the listing service answering with data and with other
PureCalls ==
    { [fn |-> "get_latest_version", args |-> <<l>>] :
        l \in SeqsUpTo(SelectorItems, MaxLen) }
    \cup { [fn |-> "fetch_ipa_list", args |-> <<b, data, other>>] :
             b \in Branches,
             data \in SeqsUpTo(FingerprintItems, MaxLen),
             other \in SeqsUpTo(FingerprintItems, MaxLen) }

\* a checker as __init__ leaves it, and a call about to be made
PureInit ==
    /\ targets = <<TargetA, TargetB>>
    /\ mock_hash \in {None, MockHashValue}
    /\ refresh_schedule = <<"*", "5", "*", "*", "*">>
    /\ branch_hashes = InitialHashes
    /\ hash_file = NoFile
    /\ pc = "call"
    /\ faults = 0
    /\ last = NotRun
    /\ prev = [b \in Branches |-> NoPrev]
    /\ acked = {}
    /\ kills = 0
    /\ killed = NotRun
    /\ call \in PureCalls
    /\ returned = NotReturned

\* lines 119-122
CallGetLatestVersion ==
    /\ pc = "call"
    /\ call.fn = "get_latest_version"
    /\ returned' = [fn |-> call.fn, value |-> get_latest_version(call.args[1])]
    /\ pc' = "returned"
    /\ UNCHANGED <<config, branch_hashes, hash_file, faults, last, prev, acked,
                   crash, call>>

\* lines 107-117, for each of the two answers
CallFetchIpaList ==
    /\ pc = "call"
    /\ call.fn = "fetch_ipa_list"
    /\ returned' =
         [fn |-> call.fn,
          value |-> << fetch_ipa_list(call.args[1], OkResponse(call.args[2]), mock_hash),
                       fetch_ipa_list(call.args[1], OkResponse(call.args[3]), mock_hash) >>]
    /\ pc' = "returned"
    /\ UNCHANGED <<config, branch_hashes, hash_file, faults, last, prev, acked,
                   crash, call>>

PureNext == CallGetLatestVersion \/ CallFetchIpaList

PureSpec == PureInit /\ [][PureNext]_vars

----------------------------------------------------------------------------
(* Vocabulary of the properties *)

\* the repos of the configured targets
ConfiguredRepos == { t.github_repo : t \in Range(targets) }

\* the configured targets have distinct identifiers
DistinctRepos == Cardinality(ConfiguredRepos) = Len(targets)

\* the repos a check_branch record issued a dispatch call to
CalledRepos(rec) == { c.repo : c \in Range(rec.result.calls) }

\* the repos recorded under fingerprint h in a branch's entry
Recorded(branch_data, h) == DictGet(branch_data.dispatches, h, {})

\* the tokens of the targets a check_branch record issued a call to
CalledTokens(rec) == { c.token : c \in Range(rec.result.calls) }

\* the record is of a call that fetched the listing that the previous fetch
\* of its branch got
RefetchedSame(rec) == rec.branch \in Branches /\ rec.before.fetched

\* the previous fetch of the branch led to a fan-out in which no target
\* succeeded
BeforeAllFailed(rec) ==
    rec.before.fetched /\ rec.before.successful = {} /\ rec.before.failed # {}

\* the step from this state is check_branch(b); last' is its record
Checking(b) == pc = b /\ last'.branch = b

----------------------------------------------------------------------------
(* C1 *)

\* C1 (as claimed): when the previous tick of a channel dispatched
\* fingerprint F with some targets succeeding and some failing, and its
\* state write completed, the state file records the succeeded targets and
\* not the failed ones under F, and the next tick of the channel that
\* fetches the same listing issues a dispatch call to exactly the failed
\* targets.
C1_PartialFailureRetried ==
    \A b \in Branches :
      ( /\ last.branch = b
        /\ RefetchedSame(last)
        /\ last.before.successful # {}
        /\ last.before.failed # {}
        /\ last.before.successful \cap last.before.failed = {}
        /\ hash_file = JsonFile(branch_hashes) )
      => /\ last.before.successful \subseteq
              Recorded(hash_file.data[b], last.current_hash)
         /\ last.before.failed \cap
              Recorded(hash_file.data[b], last.current_hash) = {}
         /\ CalledRepos(last) = last.before.failed

----------------------------------------------------------------------------
(* C2 *)

\* C2: a check_branch call that fetched a changed fingerprint and had no
\* successful target leaves the branch's entry and the state file as they
\* were; and a call that fetches the same listing after such a call issues
\* one dispatch call to every configured target.
C2_TotalFailureRetriedInFull ==
    [][\A b \in Branches : Checking(b) =>
         /\ ( /\ ~FetchFailed(last'.response)
              /\ last'.current_hash # branch_hashes[b].hash
              /\ last'.result.successful = <<>> )
            => /\ branch_hashes' = branch_hashes
               /\ hash_file' = hash_file
         /\ BeforeAllFailed(last')
            => /\ Len(last'.result.calls) = Len(targets)
               /\ CalledTokens(last') = { t.github_token : t \in Range(targets) }]_vars

\* a call refetched the listing of a fan-out in which every target failed,
\* and called every target again
C2_Witness ==
    /\ BeforeAllFailed(last)
    /\ Len(last.result.calls) = Len(targets)
    /\ Len(targets) > 1

----------------------------------------------------------------------------
(* C3 *)

\* C3: every repo recorded under a hash in a branch's dispatches, in
\* memory or in the state file, was answered 204 by an earlier dispatch
\* call for that branch and hash.
C3_RecordedOnlyAfterSuccess ==
    /\ \A b \in Branches : \A h \in DOMAIN branch_hashes[b].dispatches :
         \A repo \in branch_hashes[b].dispatches[h] : <<b, h, repo>> \in acked
    /\ hash_file.kind = "json" =>
         \A b \in Branches : \A h \in DOMAIN hash_file.data[b].dispatches :
           \A repo \in hash_file.data[b].dispatches[h] : <<b, h, repo>> \in acked

\* a repo is recorded in memory and in the state file after a fan-out in
\* which another target failed
C3_Witness ==
    /\ last.dispatched
    /\ last.result.failed # <<>>
    /\ hash_file.kind = "json"
    /\ \E h \in DOMAIN hash_file.data[last.branch].dispatches :
         /\ hash_file.data[last.branch].dispatches[h] # {}
         /\ hash_file.data[last.branch].dispatches[h]
              = branch_hashes[last.branch].dispatches[h]

----------------------------------------------------------------------------
(* C4 *)

\* C4: with distinct target identifiers, no dispatch call is issued to a
\* target for a branch and hash for which an earlier call to it was
\* answered 204.
C4_AtMostOncePerChange ==
    [][\A b \in Branches : (Checking(b) /\ DistinctRepos) =>
         /\ \A c \in Range(last'.result.calls) :
              <<b, last'.current_hash, c.repo>> \notin acked
         /\ \A i, j \in DOMAIN last'.result.calls :
              (i < j /\ Answered204(last'.result.calls[i].response))
                => last'.result.calls[j].repo # last'.result.calls[i].repo]_vars

\* a fan-out for a hash under which one target was answered 204 earlier
\* calls the other target and not that one
C4_Witness ==
    /\ DistinctRepos
    /\ last.dispatched
    /\ last.result.calls # <<>>
    /\ \E repo \in ConfiguredRepos :
         /\ <<last.branch, last.current_hash, repo>> \in acked
         /\ repo \notin CalledRepos(last)

----------------------------------------------------------------------------
(* C5 *)

\* C5: a fan-out for a hash under which a target's repo is already recorded
\* issues no call to that target and reports it in the successful list.
C5_IdempotentSkip ==
    [][\A b \in Branches : (Checking(b) /\ last'.dispatched) =>
         \A repo \in ConfiguredRepos \cap
                     Recorded(branch_hashes[b], last'.current_hash) :
           /\ repo \notin CalledRepos(last')
           /\ repo \in Range(last'.result.successful)]_vars

\* a fan-out reported a target as successful without calling it
C5_Witness ==
    /\ last.dispatched
    /\ \E repo \in Range(last.result.successful) : repo \notin CalledRepos(last)

----------------------------------------------------------------------------
(* C6 *)

\* the call found a changed fingerprint, a non-empty listing and at least
\* one successful target
Advanced(b, rec) ==
    /\ ~FetchFailed(rec.response)
    /\ rec.current_hash # branch_hashes[b].hash
    /\ rec.response.data # <<>>
    /\ rec.result.successful # <<>>

\* what C6 says of the branch's entry in memory after such a call: the
\* hash is the fetched one, its entry is the old one united with the
\* successful repos, the entries of the other hashes are as before
AdvancedInMemory(b, rec) ==
    LET old == branch_hashes[b]
        new == branch_hashes'[b]
        F == rec.current_hash
    IN /\ new.hash = F
       /\ Recorded(new, F) = Recorded(old, F) \cup Range(rec.result.successful)
       /\ DOMAIN new.dispatches = DOMAIN old.dispatches \cup {F}
       /\ \A h \in DOMAIN old.dispatches \ {F} :
            new.dispatches[h] = old.dispatches[h]
       /\ \A c \in Branches \ {b} : branch_hashes'[c] = branch_hashes[c]

----------------------------------------------------------------------------
(* C7 *)

\* C7 (as claimed): a call that fetches the listing that the previous fetch
\* of its branch got issues no dispatch call.
C7_NoDispatchOnSameListing_AsClaimed ==
    RefetchedSame(last) => last.result.calls = <<>>

\* C7 (amended): a call that fetches the listing that the previous fetch of
\* its branch got issues no dispatch call, unless that previous fetch led
\* to a fan-out in which no target succeeded; and a call whose fingerprint
\* equals the stored hash issues no dispatch call, changes no state and
\* writes no file.
C7_NoDispatchOnSameListing ==
    [][\A b \in Branches : Checking(b) =>
         /\ (RefetchedSame(last') /\ ~BeforeAllFailed(last'))
              => last'.result.calls = <<>>
         /\ (~FetchFailed(last'.response)
               /\ last'.current_hash = branch_hashes[b].hash)
              => /\ last'.result.calls = <<>>
                 /\ last'.save = "none"
                 /\ branch_hashes' = branch_hashes
                 /\ hash_file' = hash_file]_vars

\* a call refetched the listing of a fan-out that had a successful target,
\* and called nobody
C7_Witness ==
    /\ RefetchedSame(last)
    /\ last.before.successful # {}
    /\ last.current_hash = branch_hashes[last.branch].hash
    /\ last.result.calls = <<>>

----------------------------------------------------------------------------
(* C8 *)

\* C8: a call whose fetch raises (transport or parse error) issues no
\* dispatch call and leaves the state in memory and the state file as they
\* were; and check_branch("testflight") follows check_branch("stable") in
\* the same iteration whatever the latter returned.
C8_FetchFailureIsolated ==
    [][/\ \A b \in Branches : (Checking(b) /\ FetchFailed(last'.response)) =>
            /\ last'.result.calls = <<>>
            /\ branch_hashes' = branch_hashes
            /\ hash_file' = hash_file
       /\ pc = "stable" => pc' = "testflight"
       /\ pc = "testflight" => pc' = "sleep"]_vars

\* testflight was checked in an iteration in which the fetch for stable
\* raised
C8_Witness ==
    /\ last.branch = "testflight"
    /\ ~FetchFailed(last.response)
    /\ ~prev["stable"].fetched
    /\ faults = 1

----------------------------------------------------------------------------
(* C9 *)

\* C9 (as claimed): a call whose listing response has a non-2xx status
\* issues no dispatch call and leaves the branch's hash and dispatches as
\* they were, whatever the body.
C9_Non2xxIsFetchFailure ==
    [][\A b \in Branches :
         ( /\ Checking(b)
           /\ ~last'.response.raised
           /\ last'.response.status_code \notin 200..299 )
         => /\ last'.result.calls = <<>>
            /\ branch_hashes'[b] = branch_hashes[b]]_vars

----------------------------------------------------------------------------
(* C10 *)

\* the calls of the record that went to target i
CallsTo(rec, i) ==
    { k \in DOMAIN rec.result.calls :
        rec.result.calls[k].token = targets[i].github_token }

\* target i's call was made once, and its repo is in exactly one of the
\* two result lists: the successful one iff the call was answered 204
OneCallOneList(rec, i) ==
    LET repo == targets[i].github_repo
    IN /\ Cardinality(CallsTo(rec, i)) = 1
       /\ (repo \in Range(rec.result.successful))
            # (repo \in Range(rec.result.failed))
       /\ (repo \in Range(rec.result.successful))
            <=> \A k \in CallsTo(rec, i) :
                   Answered204(rec.result.calls[k].response)

\* C10 (as claimed): in a fan-out, every configured target whose repo is
\* not recorded under the hash gets exactly one dispatch call, whatever the
\* earlier targets returned, and is in exactly one of the two result
\* lists, the successful one iff its call was answered 204.
C10_NoShortCircuit_AsClaimed ==
    [][\A b \in Branches : (Checking(b) /\ last'.dispatched) =>
         \A i \in 1..Len(targets) :
           targets[i].github_repo
               \notin Recorded(branch_hashes[b], last'.current_hash)
             => OneCallOneList(last', i)]_vars

\* C10 (amended): in a fan-out, every configured target whose repo is not
\* recorded under the hash gets exactly one dispatch call, whatever the
\* earlier targets returned; when the configured targets have distinct
\* identifiers, it is in exactly one of the two result lists, the
\* successful one iff its call was answered 204.
C10_NoShortCircuit ==
    [][\A b \in Branches : (Checking(b) /\ last'.dispatched) =>
         \A i \in 1..Len(targets) :
           targets[i].github_repo
               \notin Recorded(branch_hashes[b], last'.current_hash)
             => /\ Cardinality(CallsTo(last', i)) = 1
                /\ DistinctRepos => OneCallOneList(last', i)]_vars

\* a fan-out over distinct targets called the second target after the call
\* to the first one failed
C10_Witness ==
    /\ DistinctRepos
    /\ last.dispatched
    /\ Len(last.result.calls) = 2
    /\ ~Answered204(last.result.calls[1].response)
    /\ Answered204(last.result.calls[2].response)
    /\ last.result.failed = <<targets[1].github_repo>>
    /\ last.result.successful = <<targets[2].github_repo>>

----------------------------------------------------------------------------
(* C11 *)

\* C11 (as claimed): when the write of the state file raises after a
\* fan-out with a successful target, the loop goes on to its next step, and
\* the branch's hash and dispatches in memory, which the later calls read,
\* are as they were before the call.
C11_SaveFailureNotAdvanced ==
    [][\A b \in Branches :
         ( /\ Checking(b)
           /\ last'.result.successful # <<>>
           /\ last'.save \in SaveOutcomes \ {"ok"} )
         => /\ pc' \in {"testflight", "sleep"}
            /\ branch_hashes'[b] = branch_hashes[b]]_vars

----------------------------------------------------------------------------
(* C17 *)

\* C17: get_latest_version returns None for an empty listing; and a call
\* that fetches an empty listing issues no dispatch call and leaves the
\* state in memory and the state file as they were, whatever the stored
\* hash of the branch.
C17_EmptyListingNoDispatch ==
    [][/\ get_latest_version(<<>>) = NoItem
       /\ \A b \in Branches :
            ( /\ Checking(b)
              /\ ~FetchFailed(last'.response)
              /\ last'.response.data = <<>> )
            => /\ last'.result.calls = <<>>
               /\ ~last'.dispatched
               /\ last'.save = "none"
               /\ branch_hashes' = branch_hashes
               /\ hash_file' = hash_file]_vars

\* a call fetched an empty listing whose fingerprint differs from the
\* stored hash of a branch that had advanced before, and called nobody
C17_Witness ==
    /\ last.branch \in Branches
    /\ ~FetchFailed(last.response)
    /\ last.response.data = <<>>
    /\ branch_hashes[last.branch].hash \notin {None, last.current_hash}
    /\ last.result.calls = <<>>
    /\ last.ret

----------------------------------------------------------------------------
(* C19 *)

\* the dispatch endpoint of a repository
Endpoint(repo) == <<"https://api.github.com/repos", repo, "dispatches">>

\* the call is a POST to the endpoint of a configured target's repository
\* with that target's token, and its payload is the one of branch b and of
\* the listing data
WellFormedCall(c, b, data) ==
    /\ \E i \in 1..Len(targets) :
         /\ c.url = Endpoint(targets[i].github_repo)
         /\ c.token = targets[i].github_token
    /\ c.ipa_url = <<base_url, b, get_latest_version(data).name>>
    /\ c.is_testflight = (b = "testflight")

\* every target was called and every call was answered 204
AllAnswered204(rec) ==
    /\ Len(rec.result.calls) = Len(targets)
    /\ \A k \in DOMAIN rec.result.calls : Answered204(rec.result.calls[k].response)

----------------------------------------------------------------------------
(* C20 *)

\* C20: in a run of the process, a repo recorded under a hash in a
\* branch's dispatches stays recorded under it in every later state; and a
\* call that fetches a fingerprint F that differs from the stored hash,
\* with configured targets recorded under F, issues no dispatch call to
\* these targets and advances the branch's hash to F.
C20_HistoryKeptAndConsulted ==
    [][/\ \A b \in Branches : \A h \in DOMAIN branch_hashes[b].dispatches :
            /\ h \in DOMAIN branch_hashes'[b].dispatches
            /\ branch_hashes[b].dispatches[h] \subseteq branch_hashes'[b].dispatches[h]
       /\ \A b \in Branches :
            ( /\ Checking(b)
              /\ ~FetchFailed(last'.response)
              /\ last'.current_hash # branch_hashes[b].hash
              /\ ConfiguredRepos \cap
                    Recorded(branch_hashes[b], last'.current_hash) # {} )
            => /\ CalledRepos(last') \cap
                    Recorded(branch_hashes[b], last'.current_hash) = {}
               /\ branch_hashes'[b].hash = last'.current_hash]_vars

\* a call found the listing back at a fingerprint under which every target
\* was recorded before the branch advanced to another one: it called
\* nobody, advanced the hash, and the record of the other fingerprint is
\* kept
C20_Witness ==
    /\ last.dispatched
    /\ last.result.calls = <<>>
    /\ branch_hashes[last.branch].hash = last.current_hash
    /\ ConfiguredRepos \subseteq Recorded(branch_hashes[last.branch], last.current_hash)
    /\ \E h \in DOMAIN branch_hashes[last.branch].dispatches :
         /\ h # last.current_hash
         /\ branch_hashes[last.branch].dispatches[h] # {}

----------------------------------------------------------------------------
(* C15 *)

----------------------------------------------------------------------------
(* C16 *)

\* the time of a timestamp "SS" or "SS.d" followed by "Z", in tenths of a
\* second
Chrono(t) ==
    ((t[1] - 48) * 10 + (t[2] - 48)) * 10 + (IF t[3] = 46 THEN t[4] - 48 ELSE 0)

\* the first position of ipa_list among those whose time is the latest
FirstLatest(ipa_list) ==
    CHOOSE i \in DOMAIN ipa_list :
      /\ \A j \in DOMAIN ipa_list :
           Chrono(ipa_list[j].mod_time) <= Chrono(ipa_list[i].mod_time)
      /\ \A j \in 1..(i - 1) :
           Chrono(ipa_list[j].mod_time) < Chrono(ipa_list[i].mod_time)

\* C16 (as claimed): for a non-empty listing, get_latest_version returns
\* the item whose modification time is chronologically the latest, also
\* when the timestamps differ in their number of sub-second digits, and
\* the first such item in listing order when several share that time.
C16_SelectsChronologicalMax ==
    (returned.fn = "get_latest_version" /\ call.args[1] # <<>>)
      => returned.value = call.args[1][FirstLatest(call.args[1])]

----------------------------------------------------------------------------
(* C18 *)

\* the two listings have the same items in the same array order: they
\* differ at most in the order of the keys of their item objects
SameItems(data, other) ==
    /\ Len(data) = Len(other)
    /\ \A i \in DOMAIN data :
         /\ Range(data[i].keys) = Range(other[i].keys)
         /\ data[i].name = other[i].name
         /\ data[i].mod_time = other[i].mod_time

\* C18 (as claimed): for both branches, the fingerprints of two listings
\* are equal when the listings differ only in the order of the keys of
\* their items, and differ when an item differs in a field or the array
\* order differs.
C18_FingerprintStability_AsClaimed ==
    returned.fn = "fetch_ipa_list" =>
      ( returned.value[1] = returned.value[2]
          <=> SameItems(call.args[2], call.args[3]) )

\* C18 (amended): the same for testflight, and for stable when no mock hash
\* is given; with a mock hash, the fingerprint of every stable listing is
\* the mock hash.
C18_FingerprintStability ==
    returned.fn = "fetch_ipa_list" =>
      IF mock_hash # None /\ call.args[1] = "stable"
      THEN returned.value = <<mock_hash, mock_hash>>
      ELSE ( returned.value[1] = returned.value[2]
               <=> SameItems(call.args[2], call.args[3]) )

\* the fingerprints of two listings of two items, whose first items have
\* their keys in different orders, were computed and are equal
C18_Witness ==
    /\ returned.fn = "fetch_ipa_list"
    /\ mock_hash = None
    /\ Len(call.args[2]) = 2
    /\ Len(call.args[3]) = 2
    /\ call.args[2][1].keys # call.args[3][1].keys
    /\ call.args[2][1].name # call.args[2][2].name
    /\ SameItems(call.args[2], call.args[3])
    /\ returned.value[1] = returned.value[2]

----------------------------------------------------------------------------
(* C12 *)

\* C12 (as claimed): when the process is killed during a write of the state
\* file, the file holds the complete document of before the write or the
\* complete new one; and the process started again after such a kill
\* loads its state and runs.
C12_AtomicStateWrite ==
    [][/\ ( /\ pc' = "killed"
            /\ killed'.save = "killed_in_dump"
            /\ hash_file.kind # "partial" )
          => hash_file' \in {hash_file, JsonFile(branch_hashes')}
       /\ (pc = "killed" /\ killed.save = "killed_in_dump")
          => pc' = "stable"]_vars

----------------------------------------------------------------------------
(* C13 *)

\* the process, started without --mock-hash, was killed in a check_branch
\* call of branch b after a dispatch call of it was answered 204 and
\* before the write of the state file was complete
KilledAfterAck(b) ==
    /\ mock_hash = None
    /\ killed.branch = b
    /\ killed.save \in KillPoints
    /\ AckedBy(killed) # {}

\* C13 (as claimed): the process started again after such a kill loads the
\* state file and runs from the state in it; its first check_branch of the
\* branch that fetches the listing of the killed call dispatches, with a
\* call to every target not recorded in the state file under that
\* fingerprint; and every repo recorded in the state file was answered 204
\* for that branch and hash.
C13_AtLeastOnceAcrossCrash ==
    [][/\ (pc = "killed" /\ \E b \in Branches : KilledAfterAck(b))
          => /\ pc' = "stable"
             /\ branch_hashes' = hash_file.data
       /\ \A b \in Branches :
            ( /\ Checking(b)
              /\ KilledAfterAck(b)
              /\ ~prev[b].fetched
              /\ ~FetchFailed(last'.response)
              /\ last'.response.data = killed.response.data )
            => /\ last'.dispatched
               /\ CalledRepos(last') =
                    ConfiguredRepos \ Recorded(hash_file.data[b], last'.current_hash)
       /\ hash_file'.kind = "json" =>
            \A b \in Branches : \A h \in DOMAIN hash_file'.data[b].dispatches :
              \A repo \in hash_file'.data[b].dispatches[h] :
                <<b, h, repo>> \in acked']_vars

----------------------------------------------------------------------------
(* C14 *)

\* the branch has no entry in the state, or an entry of an older shape:
\* the hash alone as a str, or a dict without dispatches
LegacyShaped(hashes, b) ==
    \/ b \notin DOMAIN hashes
    \/ ~IsDict(hashes[b])
    \/ "dispatches" \notin DOMAIN hashes[b]

\* the branch's entry is a dict with a hash and dispatches
Normalized(hashes, b) ==
    /\ b \in DOMAIN hashes
    /\ IsDict(hashes[b])
    /\ {"hash", "dispatches"} \subseteq DOMAIN hashes[b]

\* C14 (as claimed): a check_branch call for a branch whose entry in the
\* loaded state is missing or legacy-shaped, and whose fetch succeeds,
\* does not fail with an error: it returns True unless the write of the
\* state file raises, and when it dispatched with a successful target it
\* leaves the entry in the shape {hash, dispatches}.
C14_LegacyStateNormalized ==
    [][\A b \in Branches :
         ( /\ Checking(b)
           /\ LegacyShaped(branch_hashes, b)
           /\ ~FetchFailed(last'.response) )
         => /\ last'.ret \/ last'.save \in SaveOutcomes \ {"ok"}
            /\ last'.result.successful # <<>> => Normalized(branch_hashes', b)]_vars

====
